---------------------------- MODULE Spec2Model ----------------------------
(***************************************************************************)
(* Model of the Nostr proof-of-work explorer (src/frontend.tsx): the       *)
(* leading-zero-bit scorer, the bulk load of the fetched events, the live  *)
(* subscription handler and the React state they publish.                  *)
(*                                                                         *)
(* A string is a sequence of one-character strings; an event has an id     *)
(* and tags, a sequence of sequences of strings.  A fraction <<n, d>> in   *)
(* lowest terms stands for the floating-point quotient n / d.              *)
(***************************************************************************)
EXTENDS Integers, Sequences, FiniteSets, TLC

VARIABLES
    pc,          \* position of initializeNDK: "connecting", "fetching", "streaming", "failed"
    relayStatus, \* useState "Connecting..."
    error,       \* useState<string | null>: <<>> is null, <<m>> is the string m
    loading,     \* useState(true)
    notes,       \* useState<NoteWithPoW[]>: sequence of [event, pow]
    stats,       \* useState({totalNotes, notesWithPoW, averagePoW, maxPoW})
    pending,     \* updaters queued by setNotes(prev => ...) and not yet rendered
    fetched,     \* history: the events ndk.fetchEvents returned
    liveLog,     \* history: the events the subscription delivered, in order
    failedAt,    \* history: the await/call that threw ("none" when nothing threw)
    mounted,     \* the App component is mounted
    subOpen,     \* the subscription opened by ndk.subscribe is delivering events
    hex,         \* scorer harness: the argument of countLeadingZeroBits
    bits,        \* scorer harness: its result
    scorePc,     \* scorer harness: "idle", "input", "done"
    tierPow,     \* badge harness: the argument of getPowBadgeClass
    badge,       \* badge harness: its result
    tierPc       \* badge harness: "idle", "input", "done"

vars == <<pc, relayStatus, error, loading, notes, stats, pending,
          fetched, liveLog, failedAt, mounted, subOpen,
          hex, bits, scorePc, tierPow, badge, tierPc>>

appVars == <<pc, relayStatus, error, loading, notes, stats, pending,
             fetched, liveLog, failedAt, mounted, subOpen>>

scoreVars == <<hex, bits, scorePc>>

tierVars == <<tierPow, badge, tierPc>>

harnessVars == <<hex, bits, scorePc, tierPow, badge, tierPc>>

---------------------------------------------------------------------------
(* Bounds *)

MaxBatch == 3      \* events in one fetched batch
MaxLive == 2       \* events the subscription delivers
MaxHexLen == 2     \* length of the strings the scorer harness scores
MaxDifficulty == 64  \* largest difficulty the badge harness classifies

---------------------------------------------------------------------------
(* countLeadingZeroBits *)

\* parseInt yields NaN on a character that is no hexadecimal digit
NaN == -1

HexDigits == <<"0", "1", "2", "3", "4", "5", "6", "7",
               "8", "9", "a", "b", "c", "d", "e", "f">>

UpperDigits == <<"A", "B", "C", "D", "E", "F">>

\* parseInt(c, 16) of a one-character string
parseInt16(c) ==
    IF \E i \in 1..16 : HexDigits[i] = c
    THEN (CHOOSE i \in 1..16 : HexDigits[i] = c) - 1
    ELSE IF \E i \in 1..6 : UpperDigits[i] = c
         THEN (CHOOSE i \in 1..6 : UpperDigits[i] = c) + 9
         ELSE NaN

\* JavaScript n === k and n < k for a number n that may be NaN
StrictEq(n, k) == n # NaN /\ n = k
LessThan(n, k) == n # NaN /\ n < k

\* the bits the else-branch adds for a nonzero (or NaN) nibble
NibbleBits_NoQuarter(nibble) ==
    (IF LessThan(nibble, 8) THEN 1 ELSE 0)
  + (IF LessThan(nibble, 2) THEN 1 ELSE 0)

NibbleBits(nibble) ==
    (IF LessThan(nibble, 8) THEN 1 ELSE 0)
  + (IF LessThan(nibble, 4) THEN 1 ELSE 0)
  + (IF LessThan(nibble, 2) THEN 1 ELSE 0)

RECURSIVE ScanFrom(_, _, _)
ScanFrom(h, i, acc) ==
    IF i > Len(h) THEN acc
    ELSE LET nibble == parseInt16(h[i]) IN
         IF StrictEq(nibble, 0)
         THEN ScanFrom(h, i + 1, acc + 4)
         ELSE acc + NibbleBits(nibble)

countLeadingZeroBits(h) == ScanFrom(h, 1, 0)

---------------------------------------------------------------------------
(* Events *)

\* The events the relays can hand over.  The state holds references to them
\* (their names); EventOf gives the id and the tags of each.
EventOf ==
    [plain   |-> [id |-> <<"8", "1">>, tags |-> << <<"Nonce", "1">> >>],
     nonce   |-> [id |-> <<"f", "0">>, tags |-> << <<"p", "x">>, <<"nonce", "7", "20">> >>],
     zero    |-> [id |-> <<"0", "0">>, tags |-> <<>>],
     sixA    |-> [id |-> <<"0", "2">>, tags |-> << <<"e", "nonce">>, <<>> >>],
     sixB    |-> [id |-> <<"0", "3">>, tags |-> <<>>],
     badTail |-> [id |-> <<"0", "g">>, tags |-> <<>>],
     badHead |-> [id |-> <<"g", "0">>, tags |-> << <<"e", "nonce">> >>]]

Events == DOMAIN EventOf

IdOf(event) == EventOf[event].id

TagsOf(event) == EventOf[event].tags

\* event.tags.some(tag => tag[0] === "nonce"); tag[0] of an empty tag is undefined
hasNonceTag_AnyElement(tags) ==
    \E i \in 1..Len(tags) : \E j \in 1..Len(tags[i]) : tags[i][j] = "nonce"

hasNonceTag(tags) ==
    \E i \in 1..Len(tags) : Len(tags[i]) > 0 /\ tags[i][1] = "nonce"


---------------------------------------------------------------------------
(* Sorting and statistics *)

\* the number of entries of s whose pow is at least p
RECURSIVE CountAtLeast(_, _)
CountAtLeast(s, p) ==
    IF s = <<>> THEN 0
    ELSE (IF Head(s).pow >= p THEN 1 ELSE 0) + CountAtLeast(Tail(s), p)

\* a step of an unstable sort: x goes in front of the entries of equal pow
InsertByPow_BeforeTies(sorted, x) ==
    LET k == CountAtLeast(sorted, x.pow + 1) IN
    SubSeq(sorted, 1, k) \o <<x>> \o SubSeq(sorted, k + 1, Len(sorted))

\* one step of the stable sort: x goes behind every entry that does not sort after it
InsertByPow(sorted, x) ==
    LET k == CountAtLeast(sorted, x.pow) IN
    SubSeq(sorted, 1, k) \o <<x>> \o SubSeq(sorted, k + 1, Len(sorted))

RECURSIVE SortFrom(_, _, _)
SortFrom(s, i, sorted) ==
    IF i > Len(s) THEN sorted
    ELSE SortFrom(s, i + 1, InsertByPow(sorted, s[i]))

\* a sort that is left out
sortByPow_Unsorted(s) == s

\* Array.prototype.sort((a, b) => b.pow - a.pow): stable, highest pow first
sortByPow(s) == SortFrom(s, 1, <<>>)

RECURSIVE Gcd(_, _)
Gcd(a, b) == IF b = 0 THEN a ELSE Gcd(b, a % b)

\* the quotient n / d of two non-negative integers, d > 0, in lowest terms
Quotient(n, d) == LET g == Gcd(n, d) IN <<n \div g, d \div g>>

Zero == <<0, 1>>

Max(a, b) == IF a >= b THEN a ELSE b

\* the badge class with the upper threshold taken strictly
getPowBadgeClass_Strict(pow) ==
    IF pow > 20 THEN "pow-high"
    ELSE IF pow >= 10 THEN "pow-medium"
    ELSE "pow-low"

\* getPowBadgeClass
getPowBadgeClass(pow) ==
    IF pow >= 20 THEN "pow-high"
    ELSE IF pow >= 10 THEN "pow-medium"
    ELSE "pow-low"

\* the accumulators of the bulk pass before the first event
EmptyPass ==
    [notesWithPoW |-> <<>>, totalPoW |-> 0, maxPoW |-> 0, notesWithPoWCount |-> 0]

\* the body of events.forEach with the maximum never raised
ProcessEvent_NoMax(acc, event) ==
    LET pow == countLeadingZeroBits(IdOf(event))
        nonce == hasNonceTag(TagsOf(event))
    IN  IF pow > 0 \/ nonce
        THEN [notesWithPoW |-> Append(acc.notesWithPoW, [event |-> event, pow |-> pow]),
              totalPoW |-> IF pow > 0 THEN acc.totalPoW + pow ELSE acc.totalPoW,
              maxPoW |-> acc.maxPoW,
              notesWithPoWCount |->
                  IF pow > 0 THEN acc.notesWithPoWCount + 1 ELSE acc.notesWithPoWCount]
        ELSE acc

\* the body of events.forEach
ProcessEvent(acc, event) ==
    LET pow == countLeadingZeroBits(IdOf(event))
        nonce == hasNonceTag(TagsOf(event))
    IN  IF pow > 0 \/ nonce
        THEN [notesWithPoW |-> Append(acc.notesWithPoW, [event |-> event, pow |-> pow]),
              totalPoW |-> IF pow > 0 THEN acc.totalPoW + pow ELSE acc.totalPoW,
              maxPoW |-> IF pow > 0 THEN Max(acc.maxPoW, pow) ELSE acc.maxPoW,
              notesWithPoWCount |->
                  IF pow > 0 THEN acc.notesWithPoWCount + 1 ELSE acc.notesWithPoWCount]
        ELSE acc

RECURSIVE ForEach(_, _, _)
ForEach(events, i, acc) ==
    IF i > Len(events) THEN acc
    ELSE ForEach(events, i + 1, ProcessEvent(acc, events[i]))

\* the quotient 0 / 0, which JavaScript gives as NaN
NaNQuotient == <<0, 0>>

\* the object handed to setStats with the average divided out unguarded
BulkStats_Unguarded(events, acc) ==
    [totalNotes |-> Len(events),
     notesWithPoW |-> acc.notesWithPoWCount,
     averagePoW |-> IF acc.notesWithPoWCount > 0
                    THEN Quotient(acc.totalPoW, acc.notesWithPoWCount)
                    ELSE NaNQuotient,
     maxPoW |-> acc.maxPoW]

\* the object handed to setStats after the bulk pass
BulkStats(events, acc) ==
    [totalNotes |-> Len(events),
     notesWithPoW |-> acc.notesWithPoWCount,
     averagePoW |-> IF acc.notesWithPoWCount > 0
                    THEN Quotient(acc.totalPoW, acc.notesWithPoWCount)
                    ELSE Zero,
     maxPoW |-> acc.maxPoW]

\* the updater of the subscription handler without its sort
Updater_NoSort(prev, note) == <<note>> \o prev

\* prev => [{ event, pow }, ...prev].sort(...)
Updater(prev, note) == sortByPow(<<note>> \o prev)

\* every queued update computed from the list as it was when the burst began
ApplyUpdaters_Stale(prev, queue) ==
    IF queue = <<>> THEN prev ELSE Updater(prev, queue[Len(queue)])

RECURSIVE ApplyUpdaters(_, _)
ApplyUpdaters(prev, queue) ==
    IF queue = <<>> THEN prev
    ELSE ApplyUpdaters(Updater(prev, Head(queue)), Tail(queue))

---------------------------------------------------------------------------
(* What the relays can answer *)

Range(s) == {s[i] : i \in 1..Len(s)}

Injective(s) == \A i, j \in 1..Len(s) : i # j => s[i] # s[j]

\* fetchEvents returns a Set of events: no event twice, iterated in insertion order
Batches ==
    UNION {{s \in [1..k -> Events] : Injective(s)} : k \in 0..MaxBatch}

\* the values a rejected await or a throwing call can hand to the catch clause
Thrown == {[isError |-> TRUE, message |-> "relay timeout"],
           [isError |-> TRUE, message |-> ""],
           [isError |-> FALSE, message |-> "closed"]}

HexStrings ==
    UNION {[1..k -> Range(HexDigits)] : k \in 0..MaxHexLen}

---------------------------------------------------------------------------
(* initializeNDK and the subscription handler *)

\* the App component as first rendered, before initializeNDK has done anything
InitApp ==
    /\ pc = "connecting"
    /\ relayStatus = "Connecting..."
    /\ error = <<>>
    /\ loading = TRUE
    /\ notes = <<>>
    /\ stats = [totalNotes |-> 0, notesWithPoW |-> 0, averagePoW |-> Zero, maxPoW |-> 0]
    /\ pending = <<>>
    /\ fetched = <<>>
    /\ liveLog = <<>>
    /\ failedAt = "none"
    /\ mounted = TRUE
    /\ subOpen = FALSE

Init ==
    /\ InitApp
    /\ hex = <<>>
    /\ bits = 0
    /\ scorePc = "idle"
    /\ tierPow = 0
    /\ badge = ""
    /\ tierPc = "idle"

\* the catch clause without its setLoading(false)
Catch_KeepsLoading(err, where) ==
    /\ error' = <<IF err.isError THEN err.message ELSE "Failed to connect to Nostr">>
    /\ relayStatus' = "Not Connected"
    /\ loading' = loading
    /\ pc' = "failed"
    /\ failedAt' = where

\* the catch clause
Catch(err, where) ==
    /\ error' = <<IF err.isError THEN err.message ELSE "Failed to connect to Nostr">>
    /\ relayStatus' = "Not Connected"
    /\ loading' = FALSE
    /\ pc' = "failed"
    /\ failedAt' = where

\* await ndk.connect() resolves and setRelayStatus("Connected") is left out
ConnectOk_NoStatus ==
    /\ pc = "connecting"
    /\ pc' = "fetching"
    /\ UNCHANGED <<relayStatus, error, loading, notes, stats, pending, fetched>>
    /\ UNCHANGED <<liveLog, failedAt, mounted, subOpen>>
    /\ UNCHANGED harnessVars

\* await ndk.connect() resolves
ConnectOk ==
    /\ pc = "connecting"
    /\ relayStatus' = "Connected"
    /\ pc' = "fetching"
    /\ UNCHANGED <<error, loading, notes, stats, pending, fetched, liveLog, failedAt>>
    /\ UNCHANGED <<mounted, subOpen>>
    /\ UNCHANGED harnessVars

\* await ndk.connect() rejects
ConnectFail ==
    /\ pc = "connecting"
    /\ \E err \in Thrown : Catch(err, "connect")
    /\ UNCHANGED <<notes, stats, pending, fetched, liveLog, mounted, subOpen>>
    /\ UNCHANGED harnessVars

\* await ndk.fetchEvents(filter) rejects
FetchFail ==
    /\ pc = "fetching"
    /\ \E err \in Thrown : Catch(err, "fetch")
    /\ UNCHANGED <<notes, stats, pending, fetched, liveLog, mounted, subOpen>>
    /\ UNCHANGED harnessVars

\* the bulk pass over the fetched events and the state it sets
BulkLoad(events) ==
    LET acc == ForEach(events, 1, EmptyPass) IN
    /\ fetched' = events
    /\ notes' = sortByPow(acc.notesWithPoW)
    /\ stats' = BulkStats(events, acc)

\* fetchEvents resolves, the batch is processed and the subscription opens
FetchOk ==
    /\ pc = "fetching"
    /\ \E events \in Batches : BulkLoad(events)
    /\ loading' = FALSE
    /\ subOpen' = TRUE
    /\ pc' = "streaming"
    /\ UNCHANGED <<relayStatus, error, pending, liveLog, failedAt, mounted>>
    /\ UNCHANGED harnessVars

\* fetchEvents resolves, the batch is processed and ndk.subscribe throws
SubscribeFail ==
    /\ pc = "fetching"
    /\ \E events \in Batches : BulkLoad(events)
    /\ \E err \in Thrown : Catch(err, "subscribe")
    /\ UNCHANGED <<pending, liveLog, mounted, subOpen>>
    /\ UNCHANGED harnessVars

\* the handler with the subscription opened before the fetch has resolved
LiveEvent_BeforeSnapshot ==
    /\ pc \in {"fetching", "streaming"}
    /\ Len(liveLog) < MaxLive
    /\ \E event \in Events \ Range(liveLog) :
          LET pow == countLeadingZeroBits(IdOf(event))
              nonce == hasNonceTag(TagsOf(event))
          IN  /\ pending' = IF mounted /\ (pow > 0 \/ nonce)
                            THEN Append(pending, [event |-> event, pow |-> pow])
                            ELSE pending
              /\ liveLog' = Append(liveLog, event)
    /\ UNCHANGED <<pc, relayStatus, error, loading, notes, stats, fetched, failedAt>>
    /\ UNCHANGED <<mounted, subOpen>>
    /\ UNCHANGED harnessVars

\* sub.on("event", ...): the subscription hands over an event it has not handed
\* over yet; setNotes on a component that is no longer mounted does nothing
LiveEvent ==
    /\ pc = "streaming"
    /\ subOpen
    /\ Len(liveLog) < MaxLive
    /\ \E event \in Events \ Range(liveLog) :
          LET pow == countLeadingZeroBits(IdOf(event))
              nonce == hasNonceTag(TagsOf(event))
          IN  /\ pending' = IF mounted /\ (pow > 0 \/ nonce)
                            THEN Append(pending, [event |-> event, pow |-> pow])
                            ELSE pending
              /\ liveLog' = Append(liveLog, event)
    /\ UNCHANGED <<pc, relayStatus, error, loading, notes, stats, fetched, failedAt>>
    /\ UNCHANGED <<mounted, subOpen>>
    /\ UNCHANGED harnessVars

\* React renders: the queued updaters run in order on the latest notes
Render ==
    /\ mounted
    /\ pending # <<>>
    /\ notes' = ApplyUpdaters(notes, pending)
    /\ pending' = <<>>
    /\ UNCHANGED <<pc, relayStatus, error, loading, stats, fetched, liveLog, failedAt>>
    /\ UNCHANGED <<mounted, subOpen>>
    /\ UNCHANGED harnessVars

Next ==
    \/ ConnectOk
    \/ ConnectFail
    \/ FetchFail
    \/ FetchOk
    \/ SubscribeFail
    \/ LiveEvent
    \/ Render

Spec == Init /\ [][Next]_vars

\* every await of initializeNDK settles: connect and fetchEvents each resolve or reject
Settles ==
    /\ WF_vars(ConnectOk \/ ConnectFail)
    /\ WF_vars(FetchOk \/ FetchFail \/ SubscribeFail)

\* the program with every await of initializeNDK settling
SpecSettling == Init /\ [][Next]_vars /\ Settles

---------------------------------------------------------------------------
(* Teardown *)

\* React unmounts App once initializeNDK has run to its end.  The effect of
\* useEffect returns no cleanup function, so nothing else happens.
Unmount ==
    /\ mounted
    /\ pc \in {"streaming", "failed"}
    /\ mounted' = FALSE
    /\ UNCHANGED <<pc, relayStatus, error, loading, notes, stats, pending>>
    /\ UNCHANGED <<fetched, liveLog, failedAt, subOpen>>
    /\ UNCHANGED harnessVars

NextStop ==
    \/ Next
    \/ Unmount

SpecStop == Init /\ [][NextStop]_vars

---------------------------------------------------------------------------
(* The scorer on its own *)

InitScore ==
    /\ InitApp
    /\ hex \in HexStrings
    /\ bits = 0
    /\ scorePc = "input"
    /\ tierPow = 0
    /\ badge = ""
    /\ tierPc = "idle"

Score ==
    /\ scorePc = "input"
    /\ bits' = countLeadingZeroBits(hex)
    /\ scorePc' = "done"
    /\ UNCHANGED hex
    /\ UNCHANGED tierVars
    /\ UNCHANGED appVars

NextScore == Score

SpecScore == InitScore /\ [][NextScore]_vars

---------------------------------------------------------------------------
(* The badge class on its own *)

InitTier ==
    /\ InitApp
    /\ hex = <<>>
    /\ bits = 0
    /\ scorePc = "idle"
    /\ tierPow \in 0..MaxDifficulty
    /\ badge = ""
    /\ tierPc = "input"

Classify ==
    /\ tierPc = "input"
    /\ badge' = getPowBadgeClass(tierPow)
    /\ tierPc' = "done"
    /\ UNCHANGED tierPow
    /\ UNCHANGED scoreVars
    /\ UNCHANGED appVars

NextTier == Classify

SpecTier == InitTier /\ [][NextTier]_vars

---------------------------------------------------------------------------
(* Vocabulary of the properties *)

\* the value of a hexadecimal digit, by its place in "0123456789abcdef"
DigitValue(c) == (CHOOSE i \in 1..16 : HexDigits[i] = c) - 1

\* the hex string read as a big-endian number
RECURSIVE HexValue(_)
HexValue(h) ==
    IF h = <<>> THEN 0
    ELSE 16 * HexValue(SubSeq(h, 1, Len(h) - 1)) + DigitValue(h[Len(h)])

\* the number of binary digits of v, 0 for v = 0
RECURSIVE BitLength(_)
BitLength(v) == IF v = 0 THEN 0 ELSE 1 + BitLength(v \div 2)

\* the number of "0" characters h starts with
RECURSIVE LeadingZeroNibbles(_)
LeadingZeroNibbles(h) ==
    IF h = <<>> \/ Head(h) # "0" THEN 0 ELSE 1 + LeadingZeroNibbles(Tail(h))

\* leading zero bits of a nonzero nibble value
ZeroBitsOfNibble(v) ==
    CASE v = 1 -> 3
      [] v \in 2..3 -> 2
      [] v \in 4..7 -> 1
      [] v \in 8..15 -> 0

\* the difficulty the scorer gives each event
Difficulty == [e \in Events |-> countLeadingZeroBits(IdOf(e))]

\* the qualification rule: difficulty > 0, or a tag whose first element is "nonce"
QualifyingEvents ==
    {e \in Events :
        \/ Difficulty[e] > 0
        \/ \E t \in Range(TagsOf(e)) : t # <<>> /\ Head(t) = "nonce"}

Qualifies(e) == e \in QualifyingEvents

QualifyingIn(s) == Cardinality({i \in 1..Len(s) : Qualifies(s[i])})

PositiveIn(s) == Cardinality({i \in 1..Len(s) : Difficulty[s[i]] > 0})

\* the sum of the difficulties of the qualifying events of s
RECURSIVE SumQualifying(_)
SumQualifying(s) ==
    IF s = <<>> THEN 0
    ELSE (IF Qualifies(Head(s)) THEN Difficulty[Head(s)] ELSE 0)
         + SumQualifying(Tail(s))

\* the largest difficulty among the qualifying events of s, 0 when there is none
LargestQualifying(s) ==
    LET ds == {Difficulty[s[i]] : i \in {j \in 1..Len(s) : Qualifies(s[j])}}
    IN  IF ds = {} THEN 0 ELSE CHOOSE d \in ds : \A x \in ds : x <= d

\* the sum of the difficulties of the events of s the statistics count
RECURSIVE SumCounted(_)
SumCounted(s) ==
    IF s = <<>> THEN 0
    ELSE (IF Difficulty[Head(s)] > 0 THEN Difficulty[Head(s)] ELSE 0)
         + SumCounted(Tail(s))

\* the fraction f equals n / d, and is 0 when d = 0
IsQuotient(f, n, d) ==
    IF d = 0 THEN f = Zero ELSE f[2] > 0 /\ f[1] * d = n * f[2]

NonIncreasing(s) == \A i \in 1..(Len(s) - 1) : s[i].pow >= s[i + 1].pow

Occurrences(e, s) == Cardinality({i \in 1..Len(s) : s[i].event = e})

Delivered(e, s) == \E i \in 1..Len(s) : s[i] = e

\* the bulk pass has run and its result has been set
BulkDone == pc = "streaming" \/ failedAt = "subscribe"

\* a is b with some entries left out
RECURSIVE IsSubsequence(_, _)
IsSubsequence(a, b) ==
    IF a = <<>> THEN TRUE
    ELSE IF b = <<>> THEN FALSE
    ELSE IF Head(a) = Head(b) THEN IsSubsequence(Tail(a), Tail(b))
    ELSE IsSubsequence(a, Tail(b))

\* a render step: the queued updaters are applied and the queue is emptied
Rendered == pending # <<>> /\ pending' = <<>>

\* the events with a character in the id that is no hexadecimal digit
MalformedEvents ==
    {e \in Events : \E i \in 1..Len(IdOf(e)) : parseInt16(IdOf(e)[i]) = NaN}

Malformed(e) == e \in MalformedEvents

---------------------------------------------------------------------------
(* Properties *)

\* C1: for every string of hexadecimal digits, the empty one included,
\* countLeadingZeroBits returns the number of leading zero bits of the string
\* read as a big-endian number of 4 * length bits: 4 for each leading zero
\* nibble plus 3/2/1/0 for a first nonzero nibble of 1 / 2-3 / 4-7 / 8-15.
C1_LeadingZeroBits ==
    scorePc = "done" =>
        /\ bits = 4 * Len(hex) - BitLength(HexValue(hex))
        /\ LET k == LeadingZeroNibbles(hex) IN
           bits = 4 * k + (IF k < Len(hex)
                           THEN ZeroBitsOfNibble(DigitValue(hex[k + 1]))
                           ELSE 0)

C1_Witness ==
    scorePc = "done" /\ hex = <<"0", "3">> /\ bits = 6

\* C2: an event is in the ranked list (rendered or queued for the next
\* render) once for the bulk load if it was fetched and qualifies, once for
\* the subscription if it was delivered live and qualifies, and not otherwise.
C2_AdmittedIffQualifies ==
    \A e \in Events :
        Occurrences(e, notes \o pending)
          = (IF Delivered(e, fetched) /\ Qualifies(e) THEN 1 ELSE 0)
          + (IF Delivered(e, liveLog) /\ Qualifies(e) THEN 1 ELSE 0)

C2_Witness ==
    /\ Delivered("nonce", fetched) /\ Delivered("plain", fetched)
    /\ liveLog = <<"badHead", "nonce">>
    /\ pending = <<>>
    /\ Occurrences("nonce", notes) = 2
    /\ Occurrences("plain", notes) = 0
    /\ Occurrences("badHead", notes) = 0

\* C3: right after the bulk load of N fetched events of which Q qualify, the
\* ranked list has Q entries and their difficulties are non-increasing.
C3_BulkSortedAndCounted ==
    (BulkDone /\ liveLog = <<>>) =>
        /\ Len(notes) = QualifyingIn(fetched)
        /\ NonIncreasing(notes)

C3_Witness ==
    /\ BulkDone /\ liveLog = <<>>
    /\ fetched = <<"plain", "sixA", "zero">>
    /\ Len(notes) = 2
    /\ notes[1].pow = 8 /\ notes[2].pow = 6

\* C4: after the bulk load and any live events, the ranked list is
\* non-increasing by difficulty, and its length (with the entries queued for
\* the next render) is the bulk count plus one for each qualifying live event.
C4_LiveKeepsOrderAndCount ==
    BulkDone =>
        /\ NonIncreasing(notes)
        /\ Len(notes) + Len(pending) = QualifyingIn(fetched) + QualifyingIn(liveLog)

C4_Witness ==
    /\ pc = "streaming"
    /\ fetched = <<"sixA", "badTail">>
    /\ liveLog = <<"plain", "zero">>
    /\ pending = <<>>
    /\ Len(notes) = 3
    /\ notes[1].event = "zero"

\* C5: no event id appears more than once in the ranked list.
C5_NoDuplicateIds ==
    \A i, j \in 1..Len(notes) : i # j => IdOf(notes[i].event) # IdOf(notes[j].event)

\* C6: after the bulk load, notesWithPoW equals the number of entries of the
\* ranked list.
C6_CountMatchesList ==
    BulkDone => stats.notesWithPoW = Len(notes)

\* C7: every live event raises totalNotes by one, and a qualifying one also
\* raises notesWithPoW by one and maxPoW to its difficulty when that is larger.
C7_LiveEventObserved ==
    [][liveLog' # liveLog =>
         LET e == liveLog'[Len(liveLog')] IN
         /\ stats'.totalNotes = stats.totalNotes + 1
         /\ Qualifies(e) =>
               /\ stats'.notesWithPoW = stats.notesWithPoW + 1
               /\ stats'.maxPoW = Max(stats.maxPoW, Difficulty[e])]_vars

C9_MalformedOnlyCounted ==
    [][(liveLog' # liveLog /\ Malformed(liveLog'[Len(liveLog')])) =>
         /\ stats'.totalNotes = stats.totalNotes + 1
         /\ stats'.notesWithPoW = stats.notesWithPoW
         /\ stats'.averagePoW = stats.averagePoW
         /\ stats'.maxPoW = stats.maxPoW
         /\ pending' = pending
         /\ notes' = notes]_vars

\* C10: when connect, the fetch or the subscription fails, relayStatus becomes
\* "Not Connected" with a non-empty error description, and from then on the
\* ranked list and the statistics never change and initialization never resumes.
C10_FailureIsTerminal ==
    [][/\ failedAt' # "none" =>
             /\ relayStatus' = "Not Connected"
             /\ error' # <<>>
             /\ error'[1] # ""
       /\ failedAt # "none" =>
             UNCHANGED <<pc, relayStatus, notes, stats, pending, liveLog>>]_vars

\* C11: in every state averagePoW is 0 when notesWithPoW is 0, and otherwise
\* the sum of the difficulties of the counted events over notesWithPoW; it is
\* never the quotient 0 / 0.
C11_AverageDefined ==
    /\ stats.averagePoW # NaNQuotient
    /\ stats.averagePoW[2] > 0
    /\ IF stats.notesWithPoW = 0
       THEN stats.averagePoW = Zero
       ELSE stats.averagePoW[1] * stats.notesWithPoW
              = SumCounted(fetched) * stats.averagePoW[2]

C11_Witness ==
    /\ BulkDone
    /\ fetched = <<"plain", "nonce">>
    /\ Len(notes) = 1
    /\ stats.notesWithPoW = 0
    /\ stats.averagePoW = Zero

\* C12: for every difficulty d >= 0 the badge class is high when d >= 20,
\* medium when 10 <= d < 20 and low otherwise, so each d has exactly one class.
C12_TierThresholds ==
    tierPc = "done" =>
        /\ badge \in {"pow-high", "pow-medium", "pow-low"}
        /\ (badge = "pow-high") = (tierPow >= 20)
        /\ (badge = "pow-medium") = (tierPow >= 10 /\ tierPow < 20)
        /\ (badge = "pow-low") = (tierPow < 10)

C12_Witness ==
    tierPc = "done" /\ tierPow = 20 /\ badge = "pow-high"

\* C13: the subscription delivers only after the bulk snapshot has been
\* applied: a live event is handled only in a state that already holds the
\* snapshot, and the step that applies the snapshot finds and leaves no live
\* event delivered or queued.
C13_SnapshotBeforeLive ==
    [][/\ (liveLog' # liveLog \/ pending' # pending) => BulkDone
       /\ (~BulkDone /\ BulkDone') =>
             /\ liveLog = <<>> /\ pending = <<>>
             /\ liveLog' = <<>> /\ pending' = <<>>]_vars

C13_Witness ==
    /\ pc = "streaming"
    /\ fetched = <<"sixA">>
    /\ liveLog = <<"zero">>
    /\ pending = <<>>
    /\ Len(notes) = 2
    /\ notes[1].event = "zero" /\ notes[2].event = "sixA"

\* C14: a render of queued live inserts removes and reorders nothing: the list
\* before is a subsequence of the list after, which is longer by the number of
\* inserts, and each new entry stands after every entry of strictly higher
\* difficulty and before every entry of strictly lower difficulty.
C14_InsertKeepsEntries ==
    [][Rendered =>
         /\ IsSubsequence(notes, notes')
         /\ Len(notes') = Len(notes) + Len(pending)
         /\ \A k \in 1..Len(pending) :
               \E p \in 1..Len(notes') :
                   /\ notes'[p] = pending[k]
                   /\ \A i \in 1..Len(notes') :
                         /\ notes'[i].pow > pending[k].pow => i < p
                         /\ notes'[i].pow < pending[k].pow => i > p]_vars

C14_Witness ==
    /\ pc = "streaming"
    /\ fetched = <<"nonce", "sixB", "zero">>
    /\ liveLog = <<"sixA">>
    /\ pending = <<>>
    /\ Len(notes) = 4
    /\ notes[1].event = "zero" /\ notes[4].event = "nonce"
    /\ {notes[2].event, notes[3].event} = {"sixA", "sixB"}

\* C15: relayStatus moves only from "Connecting..." to "Connected" or to
\* "Not Connected" and from "Connected" to "Not Connected"; it never returns to
\* "Connecting..." and never leaves "Not Connected"; the ranked list and the
\* statistics are written only by steps that start in "Connected".
C15_ConnectivityMoves ==
    [][/\ relayStatus' # relayStatus =>
             \/ relayStatus = "Connecting..." /\ relayStatus' = "Connected"
             \/ relayStatus = "Connecting..." /\ relayStatus' = "Not Connected"
             \/ relayStatus = "Connected" /\ relayStatus' = "Not Connected"
       /\ (notes' # notes \/ stats' # stats \/ pending' # pending) =>
             relayStatus = "Connected"]_vars

C15_Witness ==
    /\ relayStatus = "Not Connected"
    /\ failedAt = "subscribe"
    /\ Len(notes) = 2
    /\ stats.totalNotes = 3

\* C16: after the component is torn down the subscription is released, and no
\* later subscription event changes the ranked list or the statistics; the
\* teardown itself takes nothing out of the ranked list.
C16_StopReleases ==
    [][~mounted' =>
         /\ ~subOpen'
         /\ liveLog' = liveLog
         /\ notes' = notes /\ stats' = stats]_vars

\* C17: no live insert is lost in a burst: a render that finds k updaters
\* queued leaves every event in the ranked list as often as it was there
\* before plus as often as it was queued.
C17_BurstKeepsAll ==
    [][Rendered =>
         \A e \in Events :
             Occurrences(e, notes') = Occurrences(e, notes) + Occurrences(e, pending)]_vars

C17_Witness ==
    /\ pc = "streaming"
    /\ Len(notes) = 1
    /\ Len(pending) = 2
    /\ pending[1].event = "sixA" /\ pending[2].event = "zero"

\* C18: when connect and the fetch each resolve or reject, loading becomes
\* false, on the success path and on the failure path, and once false it is
\* never true again.
C18_LoadingEnds ==
    /\ <>(~loading)
    /\ [][~loading => ~loading']_vars

C18_Witness ==
    /\ ~loading
    /\ failedAt = "fetch"
    /\ relayStatus = "Not Connected"
    /\ error = <<"relay timeout">>

=============================================================================
